---- MODULE Spec2Model ----
(***************************************************************************)
(* Model of src/script.py: the multi-camera session capturer.              *)
(*                                                                         *)
(* Two threads: the main thread (main -> ImageCapture.__init__ ->          *)
(* _initializeCamera -> start_capture -> captureImages / polling ->        *)
(* shutdown) and the daemon keyboard listener (keyboardListener).  Every   *)
(* read of a shared flag by the main loop is a step of its own, so that    *)
(* the listener can interleave between any two of them.                    *)
(*                                                                         *)
(* Abstractions: cameras are named by their ordinal (camera['id']);        *)
(* capture_interval is kept in hundredths of a second; a file name is the  *)
(* pair (counter, camera ordinal or 0 when the name carries no ordinal),   *)
(* its timestamp part being left out; start_time and end_time are "None"   *)
(* or "set".  KeyboardInterrupt is delivered to the main thread where the  *)
(* code handles it (the prompts of main, the try block of start_capture).  *)
(***************************************************************************)
EXTENDS Integers, Sequences, FiniteSets, TLC

\* ------------------------------------------------------------------ bounds
MaxCameras == 2
MaxTicks == 3

\* ------------------------------------------------- constants of the program
DefaultInterval == 200
InitialCounter == 1
PollsPerSecond == 10

DefaultDir == <<"captured_images">>

VARIABLES
    pc,               \* position of the main thread
    lpc,              \* position of the keyboard listener thread
    cameraSource,     \* number of configured sources (camera_sources list)
    output_dir,       \* chosen output directory
    capture_interval, \* self.capture_interval, in hundredths of a second
    cameras,          \* self.cameras: sequence of camera ordinals
    handle,           \* per source: how often its handle was opened/released
    image_counter,    \* self.image_counter
    captured_images,  \* self.captured_images: the session records
    tick_files,       \* captureImages' local list captured_images
    idx,              \* index of the loop the main thread is in
    quit_flag,        \* self.quit_flag
    is_paused,        \* self.is_paused
    is_capturing,     \* self.is_capturing
    start_time,       \* self.start_time
    end_time,         \* self.end_time
    written,          \* history: every cv2.imwrite, in order, with its tick
    history,          \* history: outcome of every call of captureImages
    loop_exit,        \* history: how start_capture's loop ended
    late_ticks,       \* history: ticks started with quit_flag already set
    prompt_event,     \* history: what main's prompts received
    log_calls,        \* history: number of calls of create_log_file
    logFile           \* content of capture_log.txt

vars == <<pc, lpc, cameraSource, output_dir, capture_interval, cameras, handle,
          image_counter, captured_images, tick_files, idx, quit_flag,
          is_paused, is_capturing, start_time, end_time, written, history,
          loop_exit, late_ticks, prompt_event, log_calls, logFile>>

config == <<cameraSource, output_dir, capture_interval>>
flags == <<quit_flag, is_paused>>
session ==
    <<image_counter, captured_images, tick_files, written, history,
      late_ticks>>
times == <<is_capturing, start_time, end_time>>
logs == <<log_calls, logFile>>

Sources == 1..MaxCameras

\* ------------------------------------------------------- text of a line
\* A console line is a sequence of one-character strings.
Whitespace == {" "}

RECURSIVE LStrip(_)
LStrip(s) ==
    IF s # <<>> /\ Head(s) \in Whitespace THEN LStrip(Tail(s)) ELSE s

RECURSIVE RStrip(_)
RStrip(s) ==
    IF s # <<>> /\ s[Len(s)] \in Whitespace
    THEN RStrip(SubSeq(s, 1, Len(s) - 1))
    ELSE s

\* str.strip()
Strip(s) == RStrip(LStrip(s))

UpperChar(c) ==
    CASE c = "p" -> "P"
      [] c = "q" -> "Q"
      [] c = "x" -> "X"
      [] OTHER -> c

\* str.upper()
Upper(s) == [k \in 1..Len(s) |-> UpperChar(s[k])]

\* ----------------------------------------------------- float(interval)
Digits == {"0", "1", "2", "5"}

DigitVal(c) ==
    CASE c = "0" -> 0
      [] c = "1" -> 1
      [] c = "2" -> 2
      [] c = "5" -> 5

Unsigned(s) ==
    IF s # <<>> /\ Head(s) \in {"-", "+"} THEN Tail(s) ELSE s

DotPositions(s) == {k \in 1..Len(s) : s[k] = "."}

\* The decimal literals float() accepts, among the lines the model types:
\* an optional sign, digits, at most one point, at least one digit.
IsNumber(s) ==
    LET u == Unsigned(s)
        dots == DotPositions(u)
    IN  /\ Cardinality(dots) <= 1
        /\ Len(u) > Cardinality(dots)
        /\ \A k \in (1..Len(u)) \ dots : u[k] \in Digits

RECURSIVE DigitsValue(_)
DigitsValue(s) ==
    IF s = <<>> THEN 0
    ELSE 10 * DigitsValue(SubSeq(s, 1, Len(s) - 1)) + DigitVal(s[Len(s)])

\* Value of a decimal literal in hundredths, digits past the second dropped.
Hundredths(s) ==
    LET u == Unsigned(s)
        dots == DotPositions(u)
        d == IF dots = {} THEN Len(u) + 1 ELSE CHOOSE k \in dots : TRUE
        whole == SubSeq(u, 1, d - 1)
        frac == SubSeq(u, d + 1, Len(u))
        f1 == IF Len(frac) >= 1 THEN DigitVal(frac[1]) ELSE 0
        f2 == IF Len(frac) >= 2 THEN DigitVal(frac[2]) ELSE 0
        mag == 100 * DigitsValue(whole) + 10 * f1 + f2
    IN  IF s # <<>> /\ Head(s) = "-" THEN 0 - mag ELSE mag

\* int(x): truncation toward zero
IntTrunc(num, den) ==
    IF num >= 0 THEN num \div den ELSE 0 - ((0 - num) \div den)

\* len(range(int(self.capture_interval * 10)))
NumPolls(interval) ==
    LET n == IntTrunc(interval * PollsPerSecond, 100)
    IN  IF n > 0 THEN n ELSE 0

\* ------------------------------------------------------ what is typed
DirLines == { <<>>, <<" ">>, <<"d">>, <<" ", "d", " ">> }

IntervalLines ==
    { <<>>, <<" ">>,
      <<"0", ".", "0", "5">>, <<"0", ".", "1">>, <<" ", "0", ".", "2", "5">>,
      <<"-", "1">>, <<"x">>, <<"0", ".", "x">>, <<"1", ".", "0", ".", "5">> }

CommandLines ==
    { <<>>, <<"q">>, <<"Q">>, <<" ", "q", " ">>, <<"p">>, <<"P">>,
      <<"p", " ">>, <<"x">>, <<"p", "q">> }

\* ------------------------------------------------------------- Init
NoHandle == [opens |-> 0, releases |-> 0]
NoPrompt == [dir |-> "none", interval |-> "none"]
NoLog ==
    [written |-> FALSE, cameras |-> 0, total |-> 0, sessions |-> 0,
     listing |-> <<>>]

Init ==
    /\ pc = "prompt_dir"
    /\ lpc = "unstarted"
    /\ cameraSource \in 0..MaxCameras
    /\ output_dir = <<>>
    /\ capture_interval = 0
    /\ cameras = <<>>
    /\ handle = [s \in Sources |-> NoHandle]
    /\ image_counter = InitialCounter
    /\ captured_images = <<>>
    /\ tick_files = <<>>
    /\ idx = 0
    /\ quit_flag = FALSE
    /\ is_paused = FALSE
    /\ is_capturing = FALSE
    /\ start_time = "None"
    /\ end_time = "None"
    /\ written = <<>>
    /\ history = <<>>
    /\ loop_exit = "none"
    /\ late_ticks = 0
    /\ prompt_event = NoPrompt
    /\ log_calls = 0
    /\ logFile = NoLog

\* ------------------------------------------------------------- main()
\* Mutant of UseDefaults: the except clause resets the interval only.
UseDefaults_KeepDir(dirEvent, intervalEvent) ==
    /\ output_dir' = IF dirEvent = "text" THEN output_dir ELSE DefaultDir
    /\ capture_interval' = DefaultInterval
    /\ prompt_event' = [dir |-> dirEvent, interval |-> intervalEvent]
    /\ pc' = "construct"

\* Both prompts failed over to the except clause of main (231-237).
UseDefaults(dirEvent, intervalEvent) ==
    /\ output_dir' = DefaultDir
    /\ capture_interval' = DefaultInterval
    /\ prompt_event' = [dir |-> dirEvent, interval |-> intervalEvent]
    /\ pc' = "construct"

PromptDir(line) ==
    /\ pc = "prompt_dir"
    /\ output_dir' = IF Strip(line) = <<>> THEN DefaultDir ELSE Strip(line)
    /\ prompt_event' =
          [prompt_event EXCEPT !.dir =
              IF Strip(line) = <<>> THEN "empty" ELSE "text"]
    /\ pc' = "prompt_interval"
    /\ UNCHANGED <<lpc, cameraSource, capture_interval, cameras, handle, idx,
                   flags, session, times, loop_exit, logs>>

PromptInterval(line) ==
    /\ pc = "prompt_interval"
    /\ IF Strip(line) = <<>>
       THEN /\ capture_interval' = DefaultInterval
            /\ prompt_event' = [prompt_event EXCEPT !.interval = "empty"]
            /\ pc' = "construct"
            /\ UNCHANGED output_dir
       ELSE IF IsNumber(Strip(line))
       THEN /\ capture_interval' = Hundredths(Strip(line))
            /\ prompt_event' = [prompt_event EXCEPT !.interval = "number"]
            /\ pc' = "construct"
            /\ UNCHANGED output_dir
       ELSE UseDefaults(prompt_event.dir, "invalid")
    /\ UNCHANGED <<lpc, cameraSource, cameras, handle, idx, flags, session,
                   times, loop_exit, logs>>

\* KeyboardInterrupt raised by input() at either prompt
PromptInterrupt ==
    /\ pc \in {"prompt_dir", "prompt_interval"}
    /\ IF pc = "prompt_dir"
       THEN UseDefaults("interrupt", "none")
       ELSE UseDefaults(prompt_event.dir, "interrupt")
    /\ UNCHANGED <<lpc, cameraSource, cameras, handle, idx, flags, session,
                   times, loop_exit, logs>>

\* EOFError raised by input() at either prompt: main catches only
\* ValueError and KeyboardInterrupt, so it propagates out of main.
PromptEOF ==
    /\ pc \in {"prompt_dir", "prompt_interval"}
    /\ prompt_event' =
          IF pc = "prompt_dir"
          THEN [prompt_event EXCEPT !.dir = "eof"]
          ELSE [prompt_event EXCEPT !.interval = "eof"]
    /\ pc' = "crashed"
    /\ UNCHANGED <<lpc, config, cameras, handle, idx, flags, session, times,
                   loop_exit, logs>>

\* ------------------------------------------------ ImageCapture.__init__
AfterInit(i) == IF i > cameraSource THEN "start_capture" ELSE "init_camera"

Construct ==
    /\ pc = "construct"
    /\ image_counter' = InitialCounter
    /\ captured_images' = <<>>
    /\ start_time' = "None"
    /\ end_time' = "None"
    /\ is_capturing' = FALSE
    /\ quit_flag' = FALSE
    /\ is_paused' = FALSE
    /\ cameras' = <<>>
    /\ idx' = 1
    /\ pc' = AfterInit(1)
    /\ UNCHANGED <<lpc, config, handle, tick_files, written, history,
                   loop_exit, late_ticks, prompt_event, logs>>

InitOutcomes == {"open_failed", "read_failed", "connected"}

\* Mutant of InitializeCamera: a source that fails is skipped and startup
\* goes on with the cameras that did connect.
InitializeCamera_SkipFailed(outcome) ==
    /\ pc = "init_camera"
    /\ idx <= cameraSource
    /\ CASE outcome = "open_failed" ->
              /\ idx' = idx + 1
              /\ pc' = AfterInit(idx + 1)
              /\ UNCHANGED <<handle, cameras>>
         [] outcome = "read_failed" ->
              /\ handle' = [handle EXCEPT ![idx] =
                               [opens |-> @.opens + 1,
                                releases |-> @.releases + 1]]
              /\ idx' = idx + 1
              /\ pc' = AfterInit(idx + 1)
              /\ UNCHANGED cameras
         [] outcome = "connected" ->
              /\ handle' = [handle EXCEPT ![idx].opens = @ + 1]
              /\ cameras' = Append(cameras, idx)
              /\ idx' = idx + 1
              /\ pc' = AfterInit(idx + 1)
    /\ UNCHANGED <<lpc, config, flags, session, times, loop_exit,
                   prompt_event, logs>>

\* One iteration of _initializeCamera's loop, for source idx.
InitializeCamera(outcome) ==
    /\ pc = "init_camera"
    /\ idx <= cameraSource
    /\ CASE outcome = "open_failed" ->
              /\ pc' = "init_error"
              /\ UNCHANGED <<handle, cameras, idx>>
         [] outcome = "read_failed" ->
              /\ handle' = [handle EXCEPT ![idx] =
                               [opens |-> @.opens + 1,
                                releases |-> @.releases + 1]]
              /\ pc' = "init_error"
              /\ UNCHANGED <<cameras, idx>>
         [] outcome = "connected" ->
              /\ handle' = [handle EXCEPT ![idx].opens = @ + 1]
              /\ cameras' = Append(cameras, idx)
              /\ idx' = idx + 1
              /\ pc' = AfterInit(idx + 1)
    /\ UNCHANGED <<lpc, config, flags, session, times, loop_exit,
                   prompt_event, logs>>

\* --------------------------------------------------- captureImages
\* The file name of lines 75-78 (without its timestamp).
FileName(counter, camera_id, ncameras) ==
    [counter |-> counter, camera |-> IF ncameras > 1 THEN camera_id ELSE 0]

SetLast(h, v) == [h EXCEPT ![Len(h)] = v]

\* Where the main loop goes after poll number k of the interval.
AfterPoll(k) ==
    IF k >= NumPolls(capture_interval) THEN "loop" ELSE "poll_quit"

\* start_capture, lines 170-177: the listener thread is started.
StartCapture ==
    /\ pc = "start_capture"
    /\ start_time' = "set"
    /\ is_capturing' = TRUE
    /\ lpc' = "check"
    /\ pc' = "loop"
    /\ UNCHANGED <<config, cameras, handle, idx, flags, session, end_time,
                   loop_exit, prompt_event, logs>>

\* Mutant of LoopCheck: while True, quit being tested in the polls only.
LoopCheck_IgnoreQuit ==
    /\ pc = "loop"
    /\ Len(history) < MaxTicks
    /\ pc' = "call_capture"
    /\ UNCHANGED <<lpc, config, cameras, handle, idx, flags, session, times,
                   loop_exit, prompt_event, logs>>

\* while not self.quit_flag (180); the model runs at most MaxTicks ticks.
LoopCheck ==
    /\ pc = "loop"
    /\ quit_flag \/ Len(history) < MaxTicks
    /\ IF quit_flag
       THEN /\ pc' = "shutdown"
            /\ loop_exit' = "quit"
       ELSE /\ pc' = "call_capture"
            /\ UNCHANGED loop_exit
    /\ UNCHANGED <<lpc, config, cameras, handle, idx, flags, session, times,
                   prompt_event, logs>>

\* capture_image() is called (181, 110-111, 68-69): a tick starts.
CallCapture ==
    /\ pc = "call_capture"
    /\ history' = Append(history, "running")
    /\ late_ticks' = IF quit_flag THEN late_ticks + 1 ELSE late_ticks
    /\ tick_files' = <<>>
    /\ idx' = 1
    /\ pc' = "capture"
    /\ UNCHANGED <<lpc, config, cameras, handle, flags, image_counter,
                   captured_images, written, times, loop_exit, prompt_event,
                   logs>>

\* Mutant of CaptureRead: a failed read skips the camera (continue) instead
\* of returning False.
CaptureRead_SkipFailed(ret) ==
    /\ pc = "capture"
    /\ idx <= Len(cameras)
    /\ IF ret
       THEN LET filename == FileName(image_counter, cameras[idx], Len(cameras))
            IN  /\ written' = Append(written, [tick |-> Len(history),
                                               file |-> filename])
                /\ tick_files' = Append(tick_files,
                                        [filename |-> filename,
                                         camera_id |-> cameras[idx]])
       ELSE UNCHANGED <<written, tick_files>>
    /\ idx' = idx + 1
    /\ UNCHANGED <<pc, lpc, config, cameras, handle, flags, image_counter,
                   captured_images, history, times, loop_exit, late_ticks,
                   prompt_event, logs>>

\* Mutant of CaptureRead: a failed read aborts the tick only, and the loop
\* of start_capture goes on to the next tick.
CaptureRead_RetryAfterFail(ret) ==
    /\ pc = "capture"
    /\ idx <= Len(cameras)
    /\ IF ret
       THEN LET filename == FileName(image_counter, cameras[idx], Len(cameras))
            IN  /\ written' = Append(written, [tick |-> Len(history),
                                               file |-> filename])
                /\ tick_files' = Append(tick_files,
                                        [filename |-> filename,
                                         camera_id |-> cameras[idx]])
                /\ idx' = idx + 1
                /\ UNCHANGED <<pc, history>>
       ELSE /\ history' = SetLast(history, "failed")
            /\ pc' = "loop"
            /\ UNCHANGED <<written, tick_files, idx>>
    /\ UNCHANGED <<lpc, config, cameras, handle, flags, image_counter,
                   captured_images, times, loop_exit, late_ticks,
                   prompt_event, logs>>

\* Mutant of CaptureRead: the cameras are visited last to first.
CaptureRead_Reversed(ret) ==
    /\ pc = "capture"
    /\ idx <= Len(cameras)
    /\ IF ret
       THEN LET camera == cameras[Len(cameras) + 1 - idx]
                filename == FileName(image_counter, camera, Len(cameras))
            IN  /\ written' = Append(written, [tick |-> Len(history),
                                               file |-> filename])
                /\ tick_files' = Append(tick_files,
                                        [filename |-> filename,
                                         camera_id |-> camera])
                /\ idx' = idx + 1
                /\ UNCHANGED <<pc, history, loop_exit>>
       ELSE /\ history' = SetLast(history, "failed")
            /\ loop_exit' = "failure"
            /\ pc' = "shutdown"
            /\ UNCHANGED <<written, tick_files, idx>>
    /\ UNCHANGED <<lpc, config, cameras, handle, flags, image_counter,
                   captured_images, times, late_ticks, prompt_event, logs>>

\* One iteration of the loop over self.cameras (71-93).
CaptureRead(ret) ==
    /\ pc = "capture"
    /\ idx <= Len(cameras)
    /\ IF ret
       THEN LET filename == FileName(image_counter, cameras[idx], Len(cameras))
            IN  /\ written' = Append(written, [tick |-> Len(history),
                                               file |-> filename])
                /\ tick_files' = Append(tick_files,
                                        [filename |-> filename,
                                         camera_id |-> cameras[idx]])
                /\ idx' = idx + 1
                /\ UNCHANGED <<pc, history, loop_exit>>
       ELSE /\ history' = SetLast(history, "failed")
            /\ loop_exit' = "failure"
            /\ pc' = "shutdown"
            /\ UNCHANGED <<written, tick_files, idx>>
    /\ UNCHANGED <<lpc, config, cameras, handle, flags, image_counter,
                   captured_images, times, late_ticks, prompt_event, logs>>

\* Mutant of CaptureCommit: the counter advances once per file written.
CaptureCommit_CountFiles ==
    /\ pc = "capture"
    /\ idx > Len(cameras)
    /\ IF tick_files # <<>>
       THEN /\ captured_images' = Append(captured_images,
                                         [counter |-> image_counter,
                                          files |-> tick_files])
            /\ image_counter' = image_counter + Len(tick_files)
            /\ history' = SetLast(history, "ok")
            /\ idx' = 0
            /\ pc' = AfterPoll(0)
            /\ UNCHANGED loop_exit
       ELSE /\ history' = SetLast(history, "empty")
            /\ loop_exit' = "failure"
            /\ pc' = "shutdown"
            /\ UNCHANGED <<captured_images, image_counter, idx>>
    /\ UNCHANGED <<lpc, config, cameras, handle, flags, tick_files, written,
                   times, late_ticks, prompt_event, logs>>

\* Mutant of CaptureCommit: the record list is assigned, not appended to.
CaptureCommit_Replace ==
    /\ pc = "capture"
    /\ idx > Len(cameras)
    /\ IF tick_files # <<>>
       THEN /\ captured_images' = <<[counter |-> image_counter,
                                     files |-> tick_files]>>
            /\ image_counter' = image_counter + 1
            /\ history' = SetLast(history, "ok")
            /\ idx' = 0
            /\ pc' = AfterPoll(0)
            /\ UNCHANGED loop_exit
       ELSE /\ history' = SetLast(history, "empty")
            /\ loop_exit' = "failure"
            /\ pc' = "shutdown"
            /\ UNCHANGED <<captured_images, image_counter, idx>>
    /\ UNCHANGED <<lpc, config, cameras, handle, flags, tick_files, written,
                   times, late_ticks, prompt_event, logs>>

\* After the loop (95-103), then line 182 or the break of line 194.
CaptureCommit ==
    /\ pc = "capture"
    /\ idx > Len(cameras)
    /\ IF tick_files # <<>>
       THEN /\ captured_images' = Append(captured_images,
                                         [counter |-> image_counter,
                                          files |-> tick_files])
            /\ image_counter' = image_counter + 1
            /\ history' = SetLast(history, "ok")
            /\ idx' = 0
            /\ pc' = AfterPoll(0)
            /\ UNCHANGED loop_exit
       ELSE /\ history' = SetLast(history, "empty")
            /\ loop_exit' = "failure"
            /\ pc' = "shutdown"
            /\ UNCHANGED <<captured_images, image_counter, idx>>
    /\ UNCHANGED <<lpc, config, cameras, handle, flags, tick_files, written,
                   times, late_ticks, prompt_event, logs>>

\* ------------------------------------------- the wait between two ticks
\* if self.quit_flag: break (183-184)
PollQuit ==
    /\ pc = "poll_quit"
    /\ pc' = IF quit_flag THEN "loop" ELSE "poll_pause"
    /\ UNCHANGED <<lpc, config, cameras, handle, idx, flags, session, times,
                   loop_exit, prompt_event, logs>>

\* if self.is_paused: ... (185-186), else time.sleep(0.1) (192)
PollPause ==
    /\ pc = "poll_pause"
    /\ IF is_paused
       THEN /\ pc' = "wait_pause"
            /\ UNCHANGED idx
       ELSE /\ idx' = idx + 1
            /\ pc' = AfterPoll(idx + 1)
    /\ UNCHANGED <<lpc, config, cameras, handle, flags, session, times,
                   loop_exit, prompt_event, logs>>

\* Mutant of WaitPause: after the resume the polling of the interval goes
\* on (no break at line 191).
WaitPause_ResumePolling ==
    /\ pc = "wait_pause"
    /\ pc' = IF is_paused THEN "wait_quit" ELSE "poll_quit"
    /\ UNCHANGED <<lpc, config, cameras, handle, idx, flags, session, times,
                   loop_exit, prompt_event, logs>>

\* while self.is_paused ... (187, left operand); when it fails: 189-191
WaitPause ==
    /\ pc = "wait_pause"
    /\ pc' = IF is_paused THEN "wait_quit" ELSE "loop"
    /\ UNCHANGED <<lpc, config, cameras, handle, idx, flags, session, times,
                   loop_exit, prompt_event, logs>>

\* Mutant of WaitQuit: the paused wait tests is_paused only.
WaitQuit_IgnoreQuit ==
    /\ pc = "wait_quit"
    /\ pc' = "wait_pause"
    /\ UNCHANGED <<lpc, config, cameras, handle, idx, flags, session, times,
                   loop_exit, prompt_event, logs>>

\* ... and not self.quit_flag (187, right operand), then time.sleep(0.5)
\* (188); when it fails: 189-191
WaitQuit ==
    /\ pc = "wait_quit"
    /\ pc' = IF quit_flag THEN "loop" ELSE "wait_pause"
    /\ UNCHANGED <<lpc, config, cameras, handle, idx, flags, session, times,
                   loop_exit, prompt_event, logs>>

\* The positions of the main thread inside the try block (179-194).
TryBlock ==
    {"loop", "call_capture", "capture", "poll_quit", "poll_pause",
     "wait_pause", "wait_quit"}

\* except KeyboardInterrupt (196-198)
KeyboardInterruptMain ==
    /\ pc \in TryBlock
    /\ quit_flag' = TRUE
    /\ loop_exit' = "interrupt"
    /\ history' = IF pc = "capture" THEN SetLast(history, "interrupted")
                  ELSE history
    /\ pc' = "shutdown"
    /\ UNCHANGED <<lpc, config, cameras, handle, idx, is_paused,
                   image_counter, captured_images, tick_files, written, times,
                   late_ticks, prompt_event, logs>>

\* ------------------------------------------------------------ shutdown
AfterRelease(i) == IF i > Len(cameras) THEN "create_log" ELSE "release"

\* 200-201
Shutdown ==
    /\ pc = "shutdown"
    /\ end_time' = "set"
    /\ is_capturing' = FALSE
    /\ idx' = 1
    /\ pc' = AfterRelease(1)
    /\ UNCHANGED <<lpc, config, cameras, handle, flags, session, start_time,
                   loop_exit, prompt_event, logs>>

\* Mutant of Release: only the first camera is released.
Release_FirstOnly ==
    /\ pc = "release"
    /\ idx <= Len(cameras)
    /\ handle' = [handle EXCEPT ![cameras[idx]].releases = @ + 1]
    /\ idx' = idx + 1
    /\ pc' = "create_log"
    /\ UNCHANGED <<lpc, config, cameras, flags, session, times, loop_exit,
                   prompt_event, logs>>

\* One iteration of the loop over self.cameras (203-204).
Release ==
    /\ pc = "release"
    /\ idx <= Len(cameras)
    /\ handle' = [handle EXCEPT ![cameras[idx]].releases = @ + 1]
    /\ idx' = idx + 1
    /\ pc' = AfterRelease(idx + 1)
    /\ UNCHANGED <<lpc, config, cameras, flags, session, times, loop_exit,
                   prompt_event, logs>>

RECURSIVE SumFiles(_)
\* sum(len(session['files']) for session in self.captured_images)
SumFiles(sessions) ==
    IF sessions = <<>> THEN 0
    ELSE Len(Head(sessions).files) + SumFiles(Tail(sessions))

\* Mutant of CreateLogFile: the total counts session records, not files.
CreateLogFile_CountSessions(opened) ==
    /\ pc = "create_log"
    /\ log_calls' = log_calls + 1
    /\ logFile' = IF opened
                  THEN [written |-> TRUE,
                        cameras |-> Len(cameras),
                        total |-> Len(captured_images),
                        sessions |-> Len(captured_images),
                        listing |-> captured_images]
                  ELSE logFile
    /\ pc' = "done"
    /\ UNCHANGED <<lpc, config, cameras, handle, idx, flags, session, times,
                   loop_exit, prompt_event>>

\* Mutant of CreateLogFile: the shutdown statements sit inside the while
\* loop, which goes on unless quit was requested.
CreateLogFile_InsideLoop(opened) ==
    /\ pc = "create_log"
    /\ log_calls' = log_calls + 1
    /\ logFile' = IF opened
                  THEN [written |-> TRUE,
                        cameras |-> Len(cameras),
                        total |-> SumFiles(captured_images),
                        sessions |-> Len(captured_images),
                        listing |-> captured_images]
                  ELSE logFile
    /\ pc' = IF quit_flag THEN "done" ELSE "loop"
    /\ UNCHANGED <<lpc, config, cameras, handle, idx, flags, session, times,
                   loop_exit, prompt_event>>

\* create_log_file (138-167); opening the log may raise, which is caught.
CreateLogFile(opened) ==
    /\ pc = "create_log"
    /\ log_calls' = log_calls + 1
    /\ logFile' = IF opened
                  THEN [written |-> TRUE,
                        cameras |-> Len(cameras),
                        total |-> SumFiles(captured_images),
                        sessions |-> Len(captured_images),
                        listing |-> captured_images]
                  ELSE logFile
    /\ pc' = "done"
    /\ UNCHANGED <<lpc, config, cameras, handle, idx, flags, session, times,
                   loop_exit, prompt_event>>

\* ---------------------------------------------------- keyboardListener
\* The main thread has returned from main or died: the process is over and
\* the daemon thread with it.
Ended == pc \in {"done", "init_error", "crashed"}

\* while not self.quit_flag (118)
ListenerCheck ==
    /\ ~Ended
    /\ lpc = "check"
    /\ lpc' = IF quit_flag THEN "done" ELSE "input"
    /\ UNCHANGED <<pc, config, cameras, handle, idx, flags, session, times,
                   loop_exit, prompt_event, logs>>

\* Mutant of ListenerInput: 'Q' also clears the pause.
ListenerInput_QuitClearsPause(line) ==
    /\ ~Ended
    /\ lpc = "input"
    /\ LET user_input == Strip(Upper(line))
       IN  IF user_input = <<"Q">>
           THEN /\ quit_flag' = TRUE
                /\ is_paused' = FALSE
                /\ lpc' = "done"
           ELSE IF user_input = <<"P">>
           THEN /\ is_paused' = ~is_paused
                /\ lpc' = "check"
                /\ UNCHANGED quit_flag
           ELSE /\ lpc' = "check"
                /\ UNCHANGED flags
    /\ UNCHANGED <<pc, config, cameras, handle, idx, session, times,
                   loop_exit, prompt_event, logs>>

\* Mutant of ListenerInput: 'Q' toggles quit_flag the way 'P' toggles
\* is_paused, and the listener goes on reading.
ListenerInput_ToggleQuit(line) ==
    /\ ~Ended
    /\ lpc = "input"
    /\ LET user_input == Strip(Upper(line))
       IN  IF user_input = <<"Q">>
           THEN /\ quit_flag' = ~quit_flag
                /\ lpc' = "check"
                /\ UNCHANGED is_paused
           ELSE IF user_input = <<"P">>
           THEN /\ is_paused' = ~is_paused
                /\ lpc' = "check"
                /\ UNCHANGED quit_flag
           ELSE /\ lpc' = "check"
                /\ UNCHANGED flags
    /\ UNCHANGED <<pc, config, cameras, handle, idx, session, times,
                   loop_exit, prompt_event, logs>>

\* One line read by input() and handled (120-133).
ListenerInput(line) ==
    /\ ~Ended
    /\ lpc = "input"
    /\ LET user_input == Strip(Upper(line))
       IN  IF user_input = <<"Q">>
           THEN /\ quit_flag' = TRUE
                /\ lpc' = "done"
                /\ UNCHANGED is_paused
           ELSE IF user_input = <<"P">>
           THEN /\ is_paused' = ~is_paused
                /\ lpc' = "check"
                /\ UNCHANGED quit_flag
           ELSE /\ lpc' = "check"
                /\ UNCHANGED flags
    /\ UNCHANGED <<pc, config, cameras, handle, idx, session, times,
                   loop_exit, prompt_event, logs>>

\* input() raises EOFError or KeyboardInterrupt (134-136).
ListenerEOF ==
    /\ ~Ended
    /\ lpc = "input"
    /\ quit_flag' = TRUE
    /\ lpc' = "done"
    /\ UNCHANGED <<pc, config, cameras, handle, idx, is_paused, session,
                   times, loop_exit, prompt_event, logs>>

\* ------------------------------------------------------ specification
MainNext ==
    \/ \E line \in DirLines : PromptDir(line)
    \/ \E line \in IntervalLines : PromptInterval(line)
    \/ Construct
    \/ \E outcome \in InitOutcomes : InitializeCamera(outcome)
    \/ StartCapture
    \/ LoopCheck
    \/ CallCapture
    \/ \E ret \in BOOLEAN : CaptureRead(ret)
    \/ CaptureCommit
    \/ PollQuit
    \/ PollPause
    \/ WaitPause
    \/ WaitQuit
    \/ Shutdown
    \/ Release
    \/ \E opened \in BOOLEAN : CreateLogFile(opened)

EnvNext ==
    \/ PromptInterrupt
    \/ PromptEOF
    \/ KeyboardInterruptMain

ListenerNext ==
    \/ ListenerCheck
    \/ \E line \in CommandLines : ListenerInput(line)
    \/ ListenerEOF

Next == MainNext \/ EnvNext \/ ListenerNext

Spec == Init /\ [][Next]_vars

\* The main thread is scheduled fairly and its library calls return;
\* nothing is assumed of the keyboard or of interrupts.
FairSpec == Spec /\ WF_vars(MainNext)

\* ================================================================ claims
OkTicks == Cardinality({t \in 1..Len(history) : history[t] = "ok"})

WritesOfTick(t) == SelectSeq(written, LAMBDA w : w.tick = t)

ShutdownPcs == {"shutdown", "release", "create_log", "done"}

\* C1 (as claimed): a tick in which a camera's read failed has written no
\* image file, not even for the cameras read before the failing one, and
\* it is the last tick of the session.
C1_FailedTickWritesNothing ==
    \A t \in 1..Len(history) :
        history[t] = "failed" =>
            /\ WritesOfTick(t) = <<>>
            /\ t = Len(history)
            /\ pc \in ShutdownPcs

\* C2 (as claimed): no camera read / image write of a tick is performed in
\* a state where is_paused is true.
C2_NoTickWhilePaused ==
    [][(\E ret \in BOOLEAN : CaptureRead(ret)) => ~is_paused]_vars

\* C3: for N >= 1 configured cameras, a tick that returns True has written
\* exactly N files, one per camera, and has appended exactly one session
\* record, whose file list has length N and lists exactly those files.
ReturnsTrue ==
    /\ Len(history') = Len(history)
    /\ history' # history
    /\ history'[Len(history')] = "ok"

C3_SuccessfulTick ==
    [][ReturnsTrue =>
        LET t == Len(history)
            r == captured_images'[Len(captured_images')]
            w == SelectSeq(written', LAMBDA e : e.tick = t)
        IN  /\ cameraSource >= 1
            /\ Len(captured_images') = Len(captured_images) + 1
            /\ SubSeq(captured_images', 1, Len(captured_images))
                  = captured_images
            /\ Len(r.files) = cameraSource
            /\ Len(w) = cameraSource
            /\ Cardinality({w[c].file : c \in 1..Len(w)}) = cameraSource
            /\ \A c \in 1..cameraSource :
                  /\ r.files[c].camera_id = c
                  /\ r.files[c].filename = w[c].file
    ]_vars

C3_Witness ==
    /\ cameraSource = 2
    /\ Len(captured_images) = 2
    /\ history = <<"ok", "ok">>
    /\ Len(written) = 4

\* C4: image_counter is 1 plus the number of successful ticks in every
\* reachable state: it starts at 1, a successful tick adds exactly 1, and
\* nothing else (a failed tick, the polling, the listener, shutdown)
\* changes it.
C4_CounterIsOkTicksPlusOne == image_counter = OkTicks + 1

C4_Witness ==
    /\ pc = "done"
    /\ history = <<"ok", "ok", "failed">>
    /\ image_counter = 3
    /\ is_paused

\* C5: however start_capture's loop ends (quit, keyboard interrupt, capture
\* failure), the main thread goes on to release every handle of
\* self.cameras and then runs create_log_file exactly once.
CamerasReleased ==
    \A k \in 1..Len(cameras) : handle[cameras[k]].releases = 1

C5_SameShutdown ==
    /\ [](log_calls <= 1)
    /\ [](log_calls = 1 => CamerasReleased)
    /\ [](pc = "done" => log_calls = 1)
    /\ [](pc \in ShutdownPcs => loop_exit \in {"quit", "interrupt", "failure"})
    /\ (loop_exit # "none") ~> (pc = "done")

C5_Witness ==
    /\ pc = "done"
    /\ loop_exit = "failure"
    /\ history = <<"ok", "failed">>
    /\ Len(cameras) = 2
    /\ CamerasReleased
    /\ logFile.written

\* C6 (as claimed): when the program has ended, every handle that was
\* opened has been released exactly once, and no handle is opened twice.
C6_OpenedReleasedOnce ==
    /\ \A s \in Sources : handle[s].opens <= 1
    /\ Ended => \A s \in Sources : handle[s].releases = handle[s].opens

\* C7: the total written to the log is the sum of the lengths of the file
\* lists of all session records, which is N times the number of successful
\* ticks.
ListedFiles ==
    {<<k, c>> \in (1..Len(captured_images)) \X (1..MaxCameras) :
        c <= Len(captured_images[k].files)}

C7_TotalImages ==
    logFile.written =>
        /\ logFile.total = Cardinality(ListedFiles)
        /\ logFile.total = cameraSource * OkTicks

C7_Witness ==
    /\ logFile.written
    /\ cameraSource = 2
    /\ OkTicks = 3
    /\ logFile.total = 6

\* C8: startup is all-or-nothing.  While some configured source is not in
\* self.cameras, start_capture has not run: no tick, no image file, no log,
\* no listener; a failed startup ends in that state; so a tick only ever
\* runs with all configured cameras in self.cameras.
StartupPcs ==
    {"prompt_dir", "prompt_interval", "crashed", "construct", "init_camera",
     "init_error"}

C8_AllOrNothing ==
    /\ pc = "init_error" => Len(cameras) < cameraSource
    /\ Len(cameras) < cameraSource =>
          /\ pc \in StartupPcs
          /\ history = <<>>
          /\ written = <<>>
          /\ log_calls = 0
          /\ ~logFile.written
          /\ lpc = "unstarted"
          /\ start_time = "None"
    /\ pc \notin StartupPcs => cameras = [k \in 1..cameraSource |-> k]

C8_Witness ==
    /\ pc = "init_error"
    /\ cameraSource = 2
    /\ cameras = <<1>>

\* C9: once quit_flag is set the main thread eventually reaches shutdown;
\* and from the paused wait (or the loop test) with quit_flag set it gets
\* there without starting a tick, whether or not the pause is resumed.
C9_QuitLeadsToShutdown ==
    /\ quit_flag ~> (pc \in ShutdownPcs)
    /\ [][(quit_flag /\ pc \in {"wait_pause", "wait_quit", "loop"}) =>
            /\ pc' \in {"wait_pause", "wait_quit", "loop", "shutdown"}
            /\ history' = history
            /\ written' = written
            /\ quit_flag']_vars

C9_Witness ==
    /\ pc = "wait_quit"
    /\ quit_flag
    /\ is_paused

\* C10: a non-numeric interval or a keyboard interrupt at a prompt makes
\* main go on to the constructor with both fixed defaults; an empty answer
\* selects the default of its prompt; none of them ends the program.
PromptsFailed ==
    \/ prompt_event.dir = "interrupt"
    \/ prompt_event.interval \in {"invalid", "interrupt"}

C10_PromptDefaults ==
    /\ PromptsFailed =>
          /\ pc \notin {"prompt_dir", "prompt_interval", "crashed"}
          /\ output_dir = DefaultDir
          /\ capture_interval = 200
    /\ (prompt_event.dir = "empty" /\ pc # "prompt_dir") =>
          output_dir = DefaultDir
    /\ prompt_event.interval = "empty" =>
          /\ pc \notin {"prompt_dir", "prompt_interval", "crashed"}
          /\ capture_interval = 200
    /\ (prompt_event.dir \in {"empty", "text"}
          /\ prompt_event.interval = "none") => pc = "prompt_interval"

C10_Witness ==
    /\ pc = "loop"
    /\ prompt_event = [dir |-> "text", interval |-> "invalid"]
    /\ output_dir = DefaultDir
    /\ capture_interval = 200

\* C11: the session record list is append-only: a step either leaves it
\* unchanged or is a successful tick appending one record; and the i-th
\* record has counter i, so the counters strictly increase along the list.
C11_AppendOnly ==
    /\ [][\/ captured_images' = captured_images
          \/ /\ ReturnsTrue
             /\ Len(captured_images') = Len(captured_images) + 1
             /\ SubSeq(captured_images', 1, Len(captured_images))
                   = captured_images]_vars
    /\ [](\A i \in 1..Len(captured_images) : captured_images[i].counter = i)

C11_Witness ==
    /\ Len(captured_images) = 3
    /\ captured_images[3].counter = 3
    /\ pc = "done"

\* C12: no two image writes of a run use the same file name, that is the
\* same (counter, camera ordinal) pair, also after a tick that failed
\* part-way.
C12_WriteOnce ==
    \A i \in 1..Len(written) : \A j \in 1..Len(written) :
        i # j => written[i].file # written[j].file

C12_Witness ==
    /\ cameraSource = 2
    /\ history = <<"ok", "failed">>
    /\ Len(written) = 3
    /\ pc = "done"

\* C13: a step of the keyboard listener changes nothing but the two control
\* flags (and its own position): a P line flips is_paused only, a Q line or
\* EOF sets quit_flag only, any other line changes neither.
PauseLines == { <<"p">>, <<"P">>, <<"p", " ">> }
QuitLines == { <<"q">>, <<"Q">>, <<" ", "q", " ">> }

ListenerStep == lpc # "unstarted" /\ lpc' # lpc

C13_ListenerFrame ==
    /\ [][ListenerStep =>
            UNCHANGED <<pc, config, cameras, handle, idx, session, times,
                        loop_exit, prompt_event, logs>>]_vars
    /\ [][\A line \in CommandLines : ListenerInput(line) =>
            IF line \in PauseLines
            THEN is_paused' = ~is_paused /\ quit_flag' = quit_flag
            ELSE IF line \in QuitLines
            THEN quit_flag' /\ is_paused' = is_paused
            ELSE UNCHANGED flags]_vars
    /\ [][ListenerEOF => quit_flag' /\ is_paused' = is_paused]_vars
    /\ [][ListenerCheck => UNCHANGED flags]_vars

C13_Witness ==
    /\ is_paused
    /\ quit_flag
    /\ lpc = "done"
    /\ pc = "wait_quit"
    /\ Len(captured_images) = 1

\* C14: within a tick the cameras are read in ascending ordinal order
\* 1, 2, ..., N, each after all lower ones were read successfully; and
\* after a failed read nothing more is read or written in that tick.
LastOutcome == IF history = <<>> THEN "none" ELSE history[Len(history)]

ReadSucceeds == Len(tick_files') = Len(tick_files) + 1

C14_ReadOrder ==
    /\ [][ReadSucceeds =>
            /\ tick_files'[Len(tick_files')].camera_id = Len(tick_files) + 1
            /\ SubSeq(tick_files', 1, Len(tick_files)) = tick_files
            /\ written'[Len(written')].file
                  = tick_files'[Len(tick_files')].filename]_vars
    /\ [](\A c \in 1..Len(tick_files) : tick_files[c].camera_id = c)
    /\ [][(\E ret \in BOOLEAN : CaptureRead(ret)) =>
            LastOutcome = "running" /\ idx = Len(tick_files) + 1]_vars
    /\ [][LastOutcome = "failed" =>
            UNCHANGED <<tick_files, written, history>>]_vars

C14_Witness ==
    /\ cameraSource = 2
    /\ LastOutcome = "failed"
    /\ Len(tick_files) = 1
    /\ tick_files[1].camera_id = 1

\* C15: at most one tick starts after quit_flag became true, and it is the
\* one whose loop test had already passed: once the flag is set the main
\* thread never again passes the loop test.
C15_OneLateTick ==
    /\ [](late_ticks <= 1)
    /\ [][(quit_flag /\ pc # "call_capture") => pc' # "call_capture"]_vars

C15_Witness ==
    /\ late_ticks = 1
    /\ LastOutcome = "ok"
    /\ pc = "done"

\* C16: quit_flag starts false and never goes back to false; the listener
\* step that sets it is the listener's last step, and a finished listener
\* handles no further line.
C16_QuitMonotone ==
    /\ ~quit_flag
    /\ [][quit_flag => quit_flag']_vars
    /\ [][(ListenerStep /\ ~quit_flag /\ quit_flag') => lpc' = "done"]_vars
    /\ [][lpc = "done" =>
            /\ lpc' = "done"
            /\ is_paused' = is_paused
            /\ (quit_flag' # quit_flag => loop_exit' = "interrupt")]_vars

C16_Witness ==
    /\ quit_flag
    /\ lpc = "done"
    /\ loop_exit = "quit"
    /\ is_paused
    /\ pc = "done"

\* C17: once shutdown has begun (end_time is set; handles are released only
\* after that) no camera is read, no file written, no record appended and
\* the counter does not change; a camera is only ever read while its handle
\* is open; the log lists the final session records.
SomeReleased == \E k \in 1..Len(cameras) : handle[cameras[k]].releases > 0

C17_NothingAfterShutdown ==
    /\ [][end_time = "set" =>
            UNCHANGED <<written, captured_images, image_counter, history,
                        tick_files>>]_vars
    /\ [](SomeReleased => end_time = "set")
    /\ [][(\E ret \in BOOLEAN : CaptureRead(ret)) =>
            handle[cameras[idx]] = [opens |-> 1, releases |-> 0]]_vars
    /\ [](logFile.written =>
            /\ logFile.listing = captured_images
            /\ logFile.sessions = Len(captured_images))

C17_Witness ==
    /\ pc = "done"
    /\ end_time = "set"
    /\ logFile.written
    /\ Len(logFile.listing) = 2
    /\ cameraSource = 2
    /\ CamerasReleased

\* C18: a paused wait that ends goes straight back to the loop test, the
\* remaining polls of the interval being abandoned, and the loop test
\* starts the next tick unless quit is set; without pause and quit the
\* polls are counted one by one from 0 and the loop test is reached only
\* after all int(capture_interval * 10) of them.
IntervalPolls ==
    IF capture_interval >= 10 THEN capture_interval \div 10 ELSE 0

WaitPcs == {"wait_pause", "wait_quit"}
PollPcs == {"poll_quit", "poll_pause"}

C18_PausedWaitAndPolls ==
    /\ [][(pc \in WaitPcs /\ pc' \notin WaitPcs /\ pc' # "shutdown") =>
            /\ pc' = "loop"
            /\ idx' = idx
            /\ idx < IntervalPolls]_vars
    /\ [][(pc = "loop" /\ ~quit_flag /\ pc' # "loop" /\ pc' # "shutdown") =>
            pc' = "call_capture"]_vars
    /\ [][ReturnsTrue =>
            /\ idx' = 0
            /\ pc' = IF IntervalPolls = 0 THEN "loop" ELSE "poll_quit"]_vars
    /\ [][(pc = "poll_quit" /\ pc' \notin {"poll_quit", "shutdown"}) =>
            /\ idx' = idx
            /\ pc' = IF quit_flag THEN "loop" ELSE "poll_pause"]_vars
    /\ [][(pc = "poll_pause" /\ pc' \notin {"poll_pause", "shutdown"}) =>
            IF is_paused
            THEN pc' = "wait_pause" /\ idx' = idx
            ELSE /\ idx' = idx + 1
                 /\ pc' = IF idx' = IntervalPolls THEN "loop"
                          ELSE "poll_quit"]_vars
    /\ [](pc \in PollPcs => idx < IntervalPolls)

C18_Witness ==
    /\ pc = "call_capture"
    /\ history = <<"ok">>
    /\ capture_interval = 200
    /\ idx = 1
    /\ ~is_paused
    /\ ~quit_flag

====
